---- MODULE Spec2Model ----
(***************************************************************************)
(* The turn loop of run_military_simulation.main: query every nation with  *)
(* bounded retries, abort on a total blackout, count the classified        *)
(* actions, update the world (advancing the day), summarize the            *)
(* consequences and store them in the day-indexed history.                 *)
(*                                                                         *)
(* World, WorldModel, the nations and constants.py are not part of the     *)
(* available sources; what the loop needs of them (World.update_state, the *)
(* initial day, the action catalog, the classification lists) is modelled  *)
(* from the written specification and marked so in the model map.          *)
(***************************************************************************)
EXTENDS Integers, Sequences, FiniteSets, TLC

\* ---------------------------------------------------------------- bounds
\* --max_days is drawn from 0..MaxDaysBound
MaxDaysBound == 2
\* --max_model_retries is drawn from 0..MaxRetriesBound
MaxRetriesBound == 2
\* --max_model_retries of the short runs with rich responses
ShortRunRetries == 1

\* ------------------------------------------------ inputs of the short runs
\* --max_days of the short runs with rich responses: the days 0 and 1
ShortRunDays == 1

\* ------------------------------------------------- configuration (roster)
\* the nations, in the order of the rows of the nations config
Roster == <<"A", "B">>

Nations == {Roster[i] : i \in 1..Len(Roster)}

\* len(nations)
NumNations == Len(Roster)

\* World.current_day after construction
InitialDay == 0

\* the single dynamic variable of the example roster and its configured bounds
InitialPower == 50
PowerMin == 0
PowerMax == 100

\* the action catalog: per kind, the delta on the actor and on the target
AttackActorDelta == -5
AttackTargetDelta == -10

\* a second kind with a delta of the opposite sign on the target
AidTargetDelta == 0 - AttackTargetDelta

\* the catalog in use; the classification lists below are a separate file and
\* name a kind ("nuke") that this catalog does not hold
ActionCatalog ==
    [attack |-> [actor |-> AttackActorDelta, target |-> AttackTargetDelta],
     aid    |-> [actor |-> 0, target |-> AidTargetDelta],
     wait   |-> [actor |-> 0, target |-> 0]]

CatalogKinds == DOMAIN ActionCatalog

\* constants.PROVOKING_PLUS_ACTIONS and constants.EXTREME_ACTIONS
PROVOKING_PLUS_ACTIONS == {"attack", "nuke"}
EXTREME_ACTIONS == {"nuke"}

\* the value of `response` before any successful query (Python None)
None == [none |-> TRUE]

\* the exception kinds that leave main
\* an exception: its type, its message and the values formatted into the message
Exception(type, message, values) == [type |-> type, message |-> message, values |-> values]

NoValues == [x \in {} |-> 0]

NoError == Exception("none", "", NoValues)
ZeroDivision == Exception("ZeroDivisionError", "division by zero", NoValues)
SummarizerError == Exception("Exception", "raised by summarize_consequences", NoValues)

VARIABLES
    \* run configuration (wandb.config)
    max_days, max_model_retries, clamp_dynamic_variables, nation_model,
    \* line 170: the dynamic columns, listed once from the first nation
    dynamic_column_names,
    \* World
    current_day, previous_day, dynamic, dynamic_keys, consequence_history,
    \* position in main and how main ended
    pc, outcome, error,
    \* locals of the turn loop
    nation_index, tries, response, queued_actions, model_responses,
    num_nations_exceeded_max_retries,
    \* run-wide trackers
    aggressive_action_counts_whole_run, extreme_action_counts_whole_run,
    dynamic_vars_whole_run, log_object,
    model_response_text_whole_run, model_response_costs_whole_run, actions_whole_run,
    \* record of the calls made and of their outcomes (not program state)
    status, answered, respond_calls, resolve_log, resolved_actions, summarize_log,
    turns_started,
    \* LLMAgent.respond (agents.py): position, the agent's and the game's
    \* settings, what the backend will give, and the locals of the method
    agent_pc, use_completion_preface, no_press, backend_outcome,
    json_completion, completion, reasoning, orders, messages, exc, agent_response

config_vars == <<max_days, max_model_retries, clamp_dynamic_variables, nation_model,
                 dynamic_column_names>>
world_vars == <<current_day, previous_day, dynamic, dynamic_keys, consequence_history>>
query_vars == <<nation_index, tries, response, queued_actions, model_responses,
                num_nations_exceeded_max_retries>>
table_vars == <<model_response_text_whole_run, model_response_costs_whole_run,
                actions_whole_run>>
tracker_vars == <<aggressive_action_counts_whole_run, extreme_action_counts_whole_run,
                  dynamic_vars_whole_run, log_object, table_vars>>

\* lines 253-255: the blackout error; its text formats the retry budget only
BlackoutError ==
    Exception("RuntimeError", "All nations exceeded max retries ({}), ending simulation",
              [max_model_retries |-> max_model_retries])
observed_vars == <<status, answered, respond_calls, resolve_log, resolved_actions,
                   summarize_log, turns_started>>

main_vars == <<config_vars, world_vars, pc, outcome, error, query_vars, tracker_vars,
               observed_vars>>
agent_vars == <<agent_pc, use_completion_preface, no_press, backend_outcome,
                json_completion, completion, reasoning, orders, messages, exc,
                agent_response>>
vars == <<main_vars, agent_vars>>

\* ----------------------------------------------------------------- helpers
RECURSIVE CountIn(_, _)
\* number of actions of the queue whose name is in the classification list
CountIn(actions, names) ==
    IF actions = <<>> THEN 0
    ELSE (IF Head(actions).name \in names THEN 1 ELSE 0) + CountIn(Tail(actions), names)

\* the last count of the list in place of the sum of the list
SumLast(s) == IF s = <<>> THEN 0 ELSE s[Len(s)]

RECURSIVE SumSeq(_)
\* sum(list)
SumSeq(s) == IF s = <<>> THEN 0 ELSE Head(s) + SumSeq(Tail(s))

\* max(list) of a non-empty list
MaxSeq(s) == CHOOSE m \in {s[i] : i \in 1..Len(s)} : \A i \in 1..Len(s) : s[i] <= m

\* the actions put in front of the queue instead of behind it
ExtendFront(queue, actions) == actions \o queue

\* line 248: queued_actions.extend(response.actions)
Extend(queue, actions) == queue \o actions

\* the nation after n in the roster (wrapping), the target of n's actions
IndexOf(n) == CHOOSE i \in 1..Len(Roster) : Roster[i] = n
Neighbour(n) == Roster[(IndexOf(n) % Len(Roster)) + 1]

Action(actor, target, kind) == [self |-> actor, other |-> target, name |-> kind]

\* the responses of a nation whose policy gives at most one action, of a
\* kind the catalog holds
SingleActionMenu(n) ==
    { [by |-> n, actions |-> <<>>],
      [by |-> n, actions |-> <<Action(n, Neighbour(n), "attack")>>] }

\* the responses of a nation whose policy also gives several actions, and
\* kinds that the catalog does not hold
MultiActionMenu(n) ==
    SingleActionMenu(n) \cup
    { [by |-> n, actions |-> <<Action(n, Neighbour(n), "bogus")>>],
      [by |-> n, actions |-> <<Action(n, Neighbour(n), "nuke")>>],
      [by |-> n, actions |-> <<Action(n, Neighbour(n), "attack"),
                               Action(n, Neighbour(n), "aid")>>] }

\* the responses a nation may give (--nation_model selects the policy)
ResponseMenu(n) ==
    IF nation_model = "multi_action" THEN MultiActionMenu(n) ELSE SingleActionMenu(n)

RECURSIVE Concat(_)
Concat(ss) == IF ss = <<>> THEN <<>> ELSE Head(ss) \o Concat(Tail(ss))

\* the dynamic columns of the roster: every row of the roster has them
DynamicFields == {"power"}

\* the columns of a catalog that was not held against the roster
CatalogFieldsUnchecked == DynamicFields \cup {"morale"}

\* the columns the action catalog has deltas for; a catalog whose columns are
\* not the roster's is refused before the first turn
CatalogFields == DynamicFields

\* ------------------------------------------------------------------- Init
\* lines 202-207: the row of one day of the dynamic variables table
DynamicVarsRow(day, values) == [day |-> day, values |-> values]

\* the state before the loop for a roster whose nations start with `power`
InitWith(power) ==
    /\ clamp_dynamic_variables \in BOOLEAN
    /\ current_day = InitialDay
    /\ previous_day = InitialDay
    /\ dynamic = [n \in Nations |-> power]
    /\ dynamic_keys = [n \in Nations |-> DynamicFields]
    /\ dynamic_column_names = dynamic_keys[Roster[1]]
    /\ dynamic_vars_whole_run = <<DynamicVarsRow(0, [n \in Nations |-> power])>>
    /\ log_object = <<>>
    /\ model_response_text_whole_run = <<>>
    /\ model_response_costs_whole_run = <<>>
    /\ actions_whole_run = <<>>
    /\ consequence_history = <<>>
    /\ pc = "while"
    /\ outcome = "running"
    /\ error = NoError
    /\ nation_index = 1
    /\ tries = 0
    /\ response = None
    /\ queued_actions = <<>>
    /\ model_responses = <<>>
    /\ num_nations_exceeded_max_retries = 0
    /\ aggressive_action_counts_whole_run = <<>>
    /\ extreme_action_counts_whole_run = <<>>
    /\ status = [n \in Nations |-> "pending"]
    /\ answered = [n \in Nations |-> None]
    /\ respond_calls = [n \in Nations |-> 0]
    /\ resolve_log = <<>>
    /\ resolved_actions = <<>>
    /\ summarize_log = <<>>
    /\ turns_started = 0

\* no call of LLMAgent.respond is under way
AgentIdle ==
    /\ agent_pc = "idle"
    /\ use_completion_preface = FALSE
    /\ no_press = FALSE
    /\ backend_outcome = None
    /\ json_completion = <<>>
    /\ completion = None
    /\ reasoning = None
    /\ orders = None
    /\ messages = <<>>
    /\ exc = NoError
    /\ agent_response = None

Init ==
    /\ max_days \in 0..MaxDaysBound
    /\ max_model_retries \in 0..MaxRetriesBound
    /\ nation_model = "single_action"
    /\ InitWith(InitialPower)
    /\ AgentIdle

\* initial values of the roster one attack away from a bound
PowerNearMin == PowerMin - AttackActorDelta
PowerNearMax == PowerMax + AttackActorDelta

\* short runs of nations with rich responses, for rosters that start in the
\* middle of the range or near one of its bounds
ActionsInit ==
    /\ max_days = ShortRunDays
    /\ max_model_retries = ShortRunRetries
    /\ nation_model = "multi_action"
    /\ \E power \in {PowerNearMin, InitialPower, PowerNearMax} : InitWith(power)
    /\ AgentIdle

\* ------------------------------------------------- the loop's conditions
\* the loop test written with < instead of <=
LoopConditionStrict == current_day < max_days

\* line 214: while world.current_day <= world.max_days
LoopCondition == current_day <= max_days

\* the retry loop running one iteration too many
RetryBudgetPlusOne == max_model_retries + 1

\* line 229: for _ in range(wandb.config.max_model_retries)
RetryBudget == max_model_retries

\* where the retry loop of one nation goes after `t` failed attempts
AfterAttempt(t) == IF t < RetryBudget THEN "query" ELSE "after_retry"

\* the blackout test written with > instead of ==
AllNationsFailedStrict == num_nations_exceeded_max_retries > NumNations

\* line 252: num_nations_exceeded_max_retries == len(nations)
AllNationsFailed == num_nations_exceeded_max_retries = NumNations

\* line 227: the for loop moves to nation i, or leaves to the blackout test
ForNation(i) == IF i <= NumNations THEN AfterAttempt(0) ELSE "check_blackout"

\* `break` instead of `continue` after a nation exceeded its retries
AfterSkipBreak(i) == "check_blackout"

\* line 243: `continue` after a nation exceeded its retries
AfterSkip(i) == ForNation(i + 1)

\* the summary stored under the new current day
ConsequenceKeyCurrentDay == current_day

\* the summary stored under a fixed key
ConsequenceKeyFirstDay == InitialDay

\* line 360: the key under which the summary is stored
ConsequenceKey == previous_day

\* ------------------------------------------- World.update_state (resolver)
\* a clamp that enforces the maximum only
ClampUpper(v) == IF v > PowerMax THEN PowerMax ELSE v

\* clamp a value to its configured [min, max]
Clamp(v) == IF v < PowerMin THEN PowerMin ELSE IF v > PowerMax THEN PowerMax ELSE v

\* the deltas of one action on the dynamic values; an unknown kind is dropped
ApplyAction(dyn, a) ==
    IF a.name \notin CatalogKinds THEN dyn
    ELSE LET afterActor == [dyn EXCEPT ![a.self] = @ + ActionCatalog[a.name].actor]
         IN  IF a.other \in Nations
             THEN [afterActor EXCEPT ![a.other] = @ + ActionCatalog[a.name].target]
             ELSE afterActor

RECURSIVE ApplyAll(_, _)
ApplyAll(dyn, actions) ==
    IF actions = <<>> THEN dyn ELSE ApplyAll(ApplyAction(dyn, Head(actions)), Tail(actions))

\* the dynamic keys of the nations once an action's deltas are written to its
\* actor and its target
TouchKeys(keys, a) ==
    IF a.name \notin CatalogKinds THEN keys
    ELSE [n \in Nations |->
            IF n = a.self \/ n = a.other THEN keys[n] \cup CatalogFields ELSE keys[n]]

RECURSIVE KeysAfter(_, _)
KeysAfter(keys, actions) ==
    IF actions = <<>> THEN keys ELSE KeysAfter(TouchKeys(keys, Head(actions)), Tail(actions))

\* the day advance of World.update_state
NextDay(d) == d + 1

RECURSIVE ResolveClampEach(_, _, _)
\* a resolver that clamps after each action in place of once at the end
ResolveClampEach(dyn, actions, clamp) ==
    IF actions = <<>> THEN dyn
    ELSE LET applied == ApplyAction(dyn, Head(actions))
         IN  ResolveClampEach(IF clamp THEN [n \in Nations |-> Clamp(applied[n])]
                              ELSE applied,
                              Tail(actions), clamp)

\* resolve(current_states, actions, effect_table, clamp_enabled)
Resolve(dyn, actions, clamp) ==
    LET summed == ApplyAll(dyn, actions)
    IN  IF clamp THEN [n \in Nations |-> Clamp(summed[n])] ELSE summed

\* lines 387-394: nation.get_dynamic(column_name) for a nation of main's list
\* `nations`, the objects given to World on line 166
GetDynamic(n) == dynamic[n]

\* ---------------------------------------------------------------- actions
\* lines 214-228: the loop test holds; the turn's locals are reset and the
\* first nation's retry loop is entered.  Line 220 divides by world.max_days.
BeginTurn ==
    /\ pc = "while" /\ outcome = "running"
    /\ LoopCondition
    /\ turns_started' = turns_started + 1
    /\ IF max_days = 0
       THEN /\ outcome' = "raised"
            /\ error' = ZeroDivision
            /\ pc' = "progress"
            /\ UNCHANGED <<query_vars, status, answered, respond_calls>>
       ELSE /\ model_responses' = <<>>
            /\ queued_actions' = <<>>
            /\ num_nations_exceeded_max_retries' = 0
            /\ nation_index' = 1
            /\ response' = None
            /\ tries' = 0
            /\ pc' = ForNation(1)
            /\ status' = [n \in Nations |-> "pending"]
            /\ answered' = [n \in Nations |-> None]
            /\ respond_calls' = [n \in Nations |-> 0]
            /\ UNCHANGED <<outcome, error>>
    /\ log_object' = IF max_days = 0 THEN log_object
                      ELSE ("_progress/day" :> current_day)
    /\ UNCHANGED <<agent_vars, config_vars, world_vars, aggressive_action_counts_whole_run,
                   extreme_action_counts_whole_run, dynamic_vars_whole_run, table_vars,
                   resolve_log, resolved_actions, summarize_log>>

\* line 214 fails: the loop ends and main runs to its end (lines 421-491)
EndRun ==
    /\ pc = "while" /\ outcome = "running"
    /\ ~LoopCondition
    /\ outcome' = "completed"
    /\ pc' = "finished"
    /\ UNCHANGED <<agent_vars, config_vars, world_vars, error, query_vars, tracker_vars, observed_vars>>

\* lines 230-232: nation.respond(world) returns; break
RespondReturns ==
    /\ pc = "query" /\ outcome = "running"
    /\ \E r \in ResponseMenu(Roster[nation_index]) :
          /\ response' = r
          /\ answered' = [answered EXCEPT ![Roster[nation_index]] = r]
    /\ respond_calls' = [respond_calls EXCEPT ![Roster[nation_index]] = @ + 1]
    /\ pc' = "after_retry"
    /\ UNCHANGED <<agent_vars, config_vars, world_vars, outcome, error, nation_index, tries,
                   queued_actions, model_responses, num_nations_exceeded_max_retries,
                   tracker_vars, status, resolve_log, resolved_actions, summarize_log,
                   turns_started>>

\* lines 230-237: nation.respond(world) raises; the exception is caught and
\* logged, and the loop goes to its next iteration if one is left
RespondRaises ==
    /\ pc = "query" /\ outcome = "running"
    /\ respond_calls' = [respond_calls EXCEPT ![Roster[nation_index]] = @ + 1]
    /\ tries' = tries + 1
    /\ pc' = AfterAttempt(tries + 1)
    /\ UNCHANGED <<agent_vars, config_vars, world_vars, outcome, error, nation_index, response,
                   queued_actions, model_responses, num_nations_exceeded_max_retries,
                   tracker_vars, status, answered, resolve_log, resolved_actions,
                   summarize_log, turns_started>>

\* lines 238-243: no response after the retry loop: count the nation, continue
SkipNation ==
    /\ pc = "after_retry" /\ outcome = "running"
    /\ response = None
    /\ num_nations_exceeded_max_retries' = num_nations_exceeded_max_retries + 1
    /\ status' = [status EXCEPT ![Roster[nation_index]] = "exhausted"]
    /\ nation_index' = nation_index + 1
    /\ tries' = 0
    /\ pc' = AfterSkip(nation_index)
    /\ UNCHANGED <<agent_vars, config_vars, world_vars, outcome, error, response, queued_actions,
                   model_responses, tracker_vars, answered, respond_calls, resolve_log,
                   resolved_actions, summarize_log, turns_started>>

\* lines 244-249 (and 228 for the next nation): queue the response's actions
CollectResponse ==
    /\ pc = "after_retry" /\ outcome = "running"
    /\ response # None
    /\ queued_actions' = Extend(queued_actions, response.actions)
    /\ model_responses' = Append(model_responses, response)
    /\ status' = [status EXCEPT ![Roster[nation_index]] = "responded"]
    /\ nation_index' = nation_index + 1
    /\ tries' = 0
    /\ response' = None
    /\ pc' = ForNation(nation_index + 1)
    /\ UNCHANGED <<agent_vars, config_vars, world_vars, outcome, error,
                   num_nations_exceeded_max_retries, tracker_vars, answered,
                   respond_calls, resolve_log, resolved_actions, summarize_log,
                   turns_started>>

\* lines 251-255: all nations exceeded their retries: raise RuntimeError
CheckBlackout ==
    /\ pc = "check_blackout" /\ outcome = "running"
    /\ IF AllNationsFailed
       THEN /\ outcome' = "raised"
            /\ error' = BlackoutError
            /\ UNCHANGED pc
       ELSE /\ pc' = "log"
            /\ UNCHANGED <<outcome, error>>
    /\ UNCHANGED <<agent_vars, config_vars, world_vars, query_vars, tracker_vars, observed_vars>>

\* the shorter of two lengths, where zip stops
Min(a, b) == IF a <= b THEN a ELSE b

\* the name a row gets when each response is labelled with the nation that
\* gave it
NationOfResponse(i) == model_responses[i].by

\* lines 267, 284: zip(nations, model_responses) pairs the i-th response of
\* the day with the i-th nation of the roster
ZippedNation(i) == Roster[i]

\* lines 258-290: the rows of the day in the response text and cost tables
ModelResponseRows ==
    [i \in 1..Min(NumNations, Len(model_responses)) |->
        [day |-> current_day,
         nation_name |-> ZippedNation(i),
         response |-> model_responses[i]]]

\* lines 309-318: the rows of the day in the actions table
ActionRows ==
    [i \in 1..Len(queued_actions) |->
        [day |-> current_day,
         self |-> queued_actions[i].self,
         other |-> queued_actions[i].other,
         action |-> queued_actions[i].name]]

\* lines 257-350: the tables of the day and the classification counts
LogAndCount ==
    /\ pc = "log" /\ outcome = "running"
    /\ LET provoking == CountIn(queued_actions, PROVOKING_PLUS_ACTIONS)
           extreme == CountIn(queued_actions, EXTREME_ACTIONS)
           provoking_all == Append(aggressive_action_counts_whole_run, provoking)
           extreme_all == Append(extreme_action_counts_whole_run, extreme)
       IN  /\ aggressive_action_counts_whole_run' = provoking_all
           /\ extreme_action_counts_whole_run' = extreme_all
           /\ model_response_text_whole_run' =
                  model_response_text_whole_run \o ModelResponseRows
           /\ model_response_costs_whole_run' =
                  model_response_costs_whole_run \o ModelResponseRows
           /\ actions_whole_run' = actions_whole_run \o ActionRows
           /\ log_object' = log_object @@
                  ( "daily/model_responses_text" :> ModelResponseRows
                 @@ "daily/model_responses_costs" :> ModelResponseRows
                 @@ "daily/actions" :> ActionRows
                 @@ "daily/provoking_plus_action_counts" :> provoking
                 @@ "whole_run/sum_provoking_plus_action_counts" :> SumSeq(provoking_all)
                 @@ "whole_run/max_provoking_plus_action_counts" :> MaxSeq(provoking_all)
                 @@ "daily/extreme_action_counts" :> extreme
                 @@ "whole_run/sum_extreme_action_counts" :> SumSeq(extreme_all)
                 @@ "whole_run/max_extreme_action_counts" :> MaxSeq(extreme_all) )
    /\ pc' = "update_state"
    /\ UNCHANGED <<agent_vars, config_vars, world_vars, outcome, error, query_vars,
                   dynamic_vars_whole_run, observed_vars>>

\* a run whose --clamp_dynamic_variables flag does not reach the resolver
ClampNeverEnabled == FALSE

\* lines 70-76: the flag of the run's configuration, as the resolver reads it
ClampEnabled == clamp_dynamic_variables

\* lines 352-354: world.update_state(queued_actions), advancing the day
UpdateState ==
    /\ pc = "update_state" /\ outcome = "running"
    /\ dynamic' = Resolve(dynamic, queued_actions, ClampEnabled)
    /\ dynamic_keys' = KeysAfter(dynamic_keys, queued_actions)
    /\ previous_day' = current_day
    /\ current_day' = NextDay(current_day)
    /\ resolve_log' = Append(resolve_log, current_day)
    /\ resolved_actions' = queued_actions
    /\ pc' = "summarize"
    /\ UNCHANGED <<agent_vars, config_vars, consequence_history, outcome, error, query_vars,
                   tracker_vars, status, answered, respond_calls, summarize_log,
                   turns_started>>

\* lines 356-419: world_model.summarize_consequences(world) returns and its
\* result is stored in the history; the rest of the body only logs
Summarize ==
    /\ pc = "summarize" /\ outcome = "running"
    /\ summarize_log' = Append(summarize_log, [day |-> previous_day, at |-> current_day])
    /\ consequence_history' =
         [d \in DOMAIN consequence_history \cup {ConsequenceKey} |->
            IF d = ConsequenceKey THEN [consequences_of |-> previous_day,
                                        state |-> dynamic]
            ELSE consequence_history[d]]
    /\ dynamic_vars_whole_run' =
         Append(dynamic_vars_whole_run,
                DynamicVarsRow(current_day, [n \in Nations |-> GetDynamic(n)]))
    /\ pc' = "while"
    /\ UNCHANGED <<agent_vars, config_vars, current_day, previous_day, dynamic, dynamic_keys,
                   outcome, error,
                   query_vars, aggressive_action_counts_whole_run,
                   extreme_action_counts_whole_run, log_object, table_vars, status,
                   answered,
                   respond_calls, resolve_log, resolved_actions, turns_started>>

\* lines 357-359: world_model.summarize_consequences(world) raises; nothing
\* around the call catches it
SummarizeRaises ==
    /\ pc = "summarize" /\ outcome = "running"
    /\ summarize_log' = Append(summarize_log, [day |-> previous_day, at |-> current_day])
    /\ outcome' = "raised"
    /\ error' = SummarizerError
    /\ UNCHANGED <<agent_vars, config_vars, world_vars, pc, query_vars, tracker_vars, status,
                   answered, respond_calls, resolve_log, resolved_actions, turns_started>>

Next ==
    \/ BeginTurn
    \/ EndRun
    \/ RespondReturns
    \/ RespondRaises
    \/ SkipNation
    \/ CollectResponse
    \/ CheckBlackout
    \/ LogAndCount
    \/ UpdateState
    \/ Summarize
    \/ SummarizeRaises

Spec == Init /\ [][Next]_vars

ActionsSpec == ActionsInit /\ [][Next]_vars

\* every call of the loop returns or raises: the loop body always moves on
FairSpec == Spec /\ WF_vars(Next)

\* ====================================================== LLMAgent.respond
\* ------------------------------------------------ JSON values and strings
\* A string is the sequence of its characters.  A JSON value is tagged with
\* its Python type after json.loads; an object is the sequence of its
\* key/value pairs in the order of the text.
JStr(chars) == [type |-> "str", chars |-> chars, items |-> <<>>]
JList(items) == [type |-> "list", chars |-> <<>>, items |-> items]
JObj(pairs) == [type |-> "dict", chars |-> <<>>, items |-> pairs]
JNum == [type |-> "int", chars |-> <<>>, items |-> <<>>]
JNull == [type |-> "NoneType", chars |-> <<>>, items |-> <<>>]
\* a key the object does not have
Absent == [type |-> "absent", chars |-> <<>>, items |-> <<>>]

Pair(key, value) == [key |-> key, value |-> value]

\* isinstance(value, str)
IsStr(value) == value.type = "str"

\* str(value) of a value that is not a string: the number 5, None, a dict
Str(value) ==
    CASE value.type = "int" -> <<"5">>
      [] value.type = "NoneType" -> <<"N", "o", "n", "e">>
      [] value.type = "dict" -> <<"{", "}">>
      [] OTHER -> value.chars

\* str.upper of one character
UpperChar(c) ==
    CASE c = "f" -> "F"
      [] c = "r" -> "R"
      [] c = "e" -> "E"
      [] c = "n" -> "N"
      [] OTHER -> c

\* recipient.upper()
Upper(name) == [i \in 1..Len(name) |-> UpperChar(name[i])]

RECURSIVE Join(_)
\* " ".join(items) of a list of strings
Join(items) ==
    IF items = <<>> THEN <<>>
    ELSE IF Len(items) = 1 THEN items[1].chars
    ELSE items[1].chars \o <<" ">> \o Join(Tail(items))

\* what `for x in value` yields, for the values that can be iterated
Iterate(value) ==
    CASE value.type = "list" -> value.items
      [] value.type = "str" -> [i \in 1..Len(value.chars) |-> JStr(<<value.chars[i]>>)]
      [] value.type = "dict" -> [i \in 1..Len(value.items) |-> JStr(value.items[i].key)]
      [] OTHER -> <<>>

Iterable(value) == value.type \in {"list", "str", "dict"}

\* ---------------------------------------------------- the completion text
\* The text of a completion is a sequence of pieces: an opening or closing
\* brace, the members between a pair of braces (with the object they decode
\* to), the marker "**", blanks and backticks, and any other text.
Piece(kind, value) == [t |-> kind, value |-> value]
Open == Piece("{", None)
Close == Piece("}", None)
Stars == Piece("**", None)
Blank == Piece("blank", None)
Junk == Piece("junk", None)
Members(object) == Piece("members", object)

\* the object of a text with the keys reasoning, orders and messages
Object(r, o, m) == [reasoning |-> r, orders |-> o, messages |-> m]

RECURSIVE BeforeStars(_)
\* text.split("**")[0]
BeforeStars(text) ==
    IF text = <<>> \/ Head(text).t = "**" THEN <<>>
    ELSE <<Head(text)>> \o BeforeStars(Tail(text))

RECURSIVE StripLeft(_)
StripLeft(text) ==
    IF text # <<>> /\ Head(text).t = "blank" THEN StripLeft(Tail(text)) ELSE text

RECURSIVE StripRight(_)
StripRight(text) ==
    IF text # <<>> /\ text[Len(text)].t = "blank"
    THEN StripRight(SubSeq(text, 1, Len(text) - 1)) ELSE text

\* text.strip(" `\n")
Strip(text) == StripRight(StripLeft(text))

\* the members of an object hold braces of their own when its messages are a
\* dict
HoldsBraces(piece) == piece.t = "members" /\ piece.value.messages.type = "dict"

\* the positions of a brace in a text
Positions(text, kind) ==
    {i \in 1..Len(text) : text[i].t = kind \/ HoldsBraces(text[i])}

\* text.index(kind) and text.rindex(kind), when the piece is in the text
FirstOf(positions) == CHOOSE i \in positions : \A j \in positions : i <= j
LastOf(positions) == CHOOSE i \in positions : \A j \in positions : j <= i

\* json.loads accepts the text of one object
IsJsonObject(text) ==
    \/ (Len(text) = 2 /\ text[1].t = "{" /\ text[2].t = "}")
    \/ (Len(text) = 3 /\ text[1].t = "{" /\ text[2].t = "members" /\ text[3].t = "}")

\* json.loads(text) of such a text
Loads(text) ==
    IF Len(text) = 3 THEN text[2].value ELSE Object(Absent, Absent, Absent)

\* --------------------------------------------------- inputs of respond
Fr == <<"f", "r">>
FrCapital == <<"F", "r">>
En == <<"E", "N">>
Hi == JStr(<<"h", "i">>)
EmptyStr == JStr(<<>>)

ReasoningValues == {Absent, JStr(<<"w", "h", "y">>)}

OrdersValues ==
    { Absent, JNum, JList(<<>>), JList(<<JStr(<<"F">>)>>),
      JList(<<JStr(<<"F">>), JNum>>), JStr(<<"F", "r">>) }

MessagesValues ==
    { Absent,
      JList(<<Hi>>),
      JObj(<<>>),
      JObj(<<Pair(Fr, Hi)>>),
      JObj(<<Pair(FrCapital, EmptyStr), Pair(En, JList(<<Hi, Hi>>))>>),
      JObj(<<Pair(Fr, JNum), Pair(En, JList(<<>>))>>),
      JObj(<<Pair(Fr, JList(<<Hi, JNum>>))>>),
      JObj(<<Pair(Fr, JNull), Pair(En, JObj(<<>>))>>),
      JObj(<<Pair(Fr, JList(<<EmptyStr, EmptyStr>>))>>),
      JObj(<<Pair(Fr, Hi), Pair(FrCapital, JStr(<<"y", "o">>))>>) }

Objects ==
    {Object(r, o, m) : r \in ReasoningValues, o \in OrdersValues, m \in MessagesValues}

\* the texts a backend may give: an object alone, with text around it, with a
\* parroted "**" part after it, without its opening brace (for an agent whose
\* preface opens it), and texts that hold no object
CompletionTexts ==
    UNION { { <<Open, Members(object), Close>>,
              <<Junk, Open, Members(object), Close, Blank>>,
              <<Blank, Open, Members(object), Close, Stars, Open, Junk>>,
              <<Members(object), Close>> } : object \in Objects }
    \cup { <<>>, <<Junk>>, <<Open, Junk>>, <<Close, Junk, Open>>, <<Stars, Open, Close>>,
           <<Open, Close>>, <<Open, Junk, Close>> }
    \cup { <<Open, Members(object), Close, Open, Members(object), Close>> :
             object \in {Object(Absent, JList(<<>>), JObj(<<>>))} }

BackendOutcomes ==
    {[raises |-> TRUE, completion |-> <<>>]}
    \cup {[raises |-> FALSE, completion |-> text] : text \in CompletionTexts}

\* line 94: the texts prompts.get_preface_prompt(params) may give, among them
\* the start of the JSON object
PrefacePrompts == {<<>>, <<Open>>, <<Junk, Open>>}

\* lines 123-127: the reasoning given when the completion has none
NoReasoning == JStr(<<"*">>)

\* an exception raised inside the try block of respond
Raised(type) == Exception(type, "", NoValues)

\* line 152: AgentCompletionError(f"Exception: {exc}\n\Response: {response}")
AgentCompletionError(cause) ==
    Exception("AgentCompletionError", "Exception: {}, Response: {}", [exc |-> cause.type])

\* a handler written as `except ValueError`
CaughtValueError(e) == e.type \in {"ValueError", "JSONDecodeError", "AgentCompletionError"}

\* line 151: `except Exception` catches every exception of the try block
Caught(e) == e.type # "none"

\* messages[key] = message
Put(map, key, message) ==
    [k \in DOMAIN map \cup {key} |-> IF k = key THEN message ELSE map[k]]

RECURSIVE CleanMessages(_, _)
\* lines 139-150: the loop over completion["messages"].items(); it ends with
\* the messages kept, or with the exception of a join of non-strings
CleanMessages(pairs, kept) ==
    IF pairs = <<>> THEN [exc |-> NoError, messages |-> kept]
    ELSE LET recipient == Head(pairs).key
             given == Head(pairs).value
         IN  IF given.type = "list" /\ \E i \in 1..Len(given.items) : ~IsStr(given.items[i])
             THEN [exc |-> Raised("TypeError"), messages |-> kept]
             ELSE LET message == IF given.type = "list" THEN Join(given.items)
                                 ELSE IF ~IsStr(given) THEN Str(given)
                                 ELSE given.chars
                  IN  CleanMessages(Tail(pairs),
                                    IF message = <<>> THEN kept
                                    ELSE Put(kept, Upper(recipient), message))

\* ------------------------------------------------------ steps of respond
RespondInit ==
    /\ max_days = ShortRunDays
    /\ max_model_retries = ShortRunRetries
    /\ nation_model = "single_action"
    /\ clamp_dynamic_variables = FALSE
    /\ InitWith(InitialPower)
    /\ agent_pc = "complete"
    /\ use_completion_preface \in BOOLEAN
    /\ no_press \in BOOLEAN
    /\ backend_outcome \in BackendOutcomes
    /\ json_completion = <<>>
    /\ completion = None
    /\ reasoning = None
    /\ orders = None
    /\ messages = <<>>
    /\ exc = NoError
    /\ agent_response = None

\* the try block is left with an exception
Throw(e) ==
    /\ exc' = e
    /\ agent_pc' = "except"

\* lines 93-110: backend.complete(...) raises or returns; the preface, when
\* used, is put before the completion
AgentComplete ==
    /\ agent_pc = "complete"
    /\ IF backend_outcome.raises
       THEN /\ Throw(Raised("BackendError"))
            /\ UNCHANGED json_completion
       ELSE /\ \E preface_prompt \in PrefacePrompts :
                 json_completion' = IF use_completion_preface
                                    THEN preface_prompt \o backend_outcome.completion
                                    ELSE backend_outcome.completion
            /\ agent_pc' = "extract"
            /\ UNCHANGED exc
    /\ UNCHANGED <<main_vars, use_completion_preface, no_press, backend_outcome, completion,
                   reasoning, orders, messages, agent_response>>

\* lines 112-117: cut at "**", strip, and slice from the first "{" to the
\* last "}"; index and rindex raise ValueError when there is none
AgentExtract ==
    /\ agent_pc = "extract"
    /\ LET text == Strip(BeforeStars(json_completion))
           opens == Positions(text, "{")
           closes == Positions(text, "}")
       IN  IF opens = {} \/ closes = {}
           THEN /\ Throw(Raised("ValueError"))
                /\ json_completion' = text
           ELSE /\ json_completion' = SubSeq(text, FirstOf(opens), LastOf(closes))
                /\ agent_pc' = "loads"
                /\ UNCHANGED exc
    /\ UNCHANGED <<main_vars, use_completion_preface, no_press, backend_outcome, completion,
                   reasoning, orders, messages, agent_response>>

\* line 120: json.loads(json_completion, strict=False)
AgentLoad ==
    /\ agent_pc = "loads"
    /\ IF IsJsonObject(json_completion)
       THEN /\ completion' = Loads(json_completion)
            /\ agent_pc' = "orders"
            /\ UNCHANGED exc
       ELSE /\ Throw(Raised("JSONDecodeError"))
            /\ UNCHANGED completion
    /\ UNCHANGED <<main_vars, use_completion_preface, no_press, backend_outcome,
                   json_completion, reasoning, orders, messages, agent_response>>

\* lines 123-134: the reasoning or its default, completion["orders"], and
\* the check that every order is a str
AgentOrders ==
    /\ agent_pc = "orders"
    /\ reasoning' = IF completion.reasoning # Absent THEN completion.reasoning
                    ELSE NoReasoning
    /\ IF completion.orders = Absent
       THEN Throw(Raised("KeyError")) /\ UNCHANGED orders
       ELSE /\ orders' = completion.orders
            /\ IF ~Iterable(completion.orders)
               THEN Throw(Raised("TypeError"))
               ELSE IF \E i \in 1..Len(Iterate(completion.orders)) :
                          ~IsStr(Iterate(completion.orders)[i])
               THEN Throw(Raised("AgentCompletionError"))
               ELSE agent_pc' = "messages" /\ UNCHANGED exc
    /\ UNCHANGED <<main_vars, use_completion_preface, no_press, backend_outcome,
                   json_completion, completion, messages, agent_response>>

\* lines 136-150: no messages in no_press; the recipients in upper case, the
\* messages as non-empty strings
AgentMessages ==
    /\ agent_pc = "messages"
    /\ LET given == IF no_press THEN JObj(<<>>) ELSE completion.messages
       IN  IF given = Absent
           THEN Throw(Raised("KeyError")) /\ UNCHANGED messages
           ELSE IF given.type # "dict"
           THEN Throw(Raised("AttributeError")) /\ UNCHANGED messages
           ELSE LET cleaned == CleanMessages(given.items, <<>>)
                IN  /\ messages' = cleaned.messages
                    /\ IF cleaned.exc # NoError
                       THEN Throw(cleaned.exc)
                       ELSE agent_pc' = "return" /\ UNCHANGED exc
    /\ UNCHANGED <<main_vars, use_completion_preface, no_press, backend_outcome,
                   json_completion, completion, reasoning, orders, agent_response>>

\* lines 151-152: the handler turns the exception into AgentCompletionError,
\* which leaves respond
AgentExcept ==
    /\ agent_pc = "except"
    /\ exc' = IF Caught(exc) THEN AgentCompletionError(exc) ELSE exc
    /\ agent_pc' = "raised"
    /\ UNCHANGED <<main_vars, use_completion_preface, no_press, backend_outcome,
                   json_completion, completion, reasoning, orders, messages,
                   agent_response>>

\* lines 153-163: return AgentResponse(...)
AgentReturn ==
    /\ agent_pc = "return"
    /\ agent_response' = [reasoning |-> reasoning, orders |-> orders, messages |-> messages]
    /\ agent_pc' = "returned"
    /\ UNCHANGED <<main_vars, use_completion_preface, no_press, backend_outcome,
                   json_completion, completion, reasoning, orders, messages, exc>>

RespondNext ==
    \/ AgentComplete
    \/ AgentExtract
    \/ AgentLoad
    \/ AgentOrders
    \/ AgentMessages
    \/ AgentExcept
    \/ AgentReturn

RespondSpec == RespondInit /\ [][RespondNext]_vars

\* ------------------------------------------------------ terms of the claims
\* the nations that exhausted their retries in the turn under way
FailedThisTurn == {n \in Nations : status[n] = "exhausted"}

\* every nation of the turn exhausted its retries
Blackout == FailedThisTurn = Nations

\* every nation of the turn either responded or exhausted its retries
QueriesDone == \A n \in Nations : status[n] # "pending"

\* the days for which world.update_state / the summarizer has been called
ResolvedDays == {resolve_log[i] : i \in 1..Len(resolve_log)}
SummarizedDays == {summarize_log[i].day : i \in 1..Len(summarize_log)}

\* the actions of the nations that responded in this turn, in roster order
RespondedActions ==
    Concat([i \in 1..NumNations |->
              IF answered[Roster[i]] = None THEN <<>> ELSE answered[Roster[i]].actions])

\* the turn under way is over: the loop is back at its test, or main has ended
TurnOver == pc = "while" \/ outcome # "running"

\* ------------------------------------------------------------------ C1
\* C1: in a turn in which every nation exhausts its retries, main raises the
\* blackout error before world.update_state and before the summarizer are
\* called for that day, the world is left as it was, and no step follows.
C1_BlackoutFatality ==
    /\ [](Blackout =>
            /\ pc = "check_blackout"
            /\ outcome = "raised" => error = BlackoutError
            /\ current_day \notin ResolvedDays
            /\ current_day \notin SummarizedDays
            /\ current_day \notin DOMAIN consequence_history)
    /\ [][Blackout =>
            /\ outcome' = "raised"
            /\ error' = BlackoutError
            /\ UNCHANGED <<world_vars, resolve_log, resolved_actions, summarize_log,
                           turns_started>>]_vars
    /\ [][error # BlackoutError]_vars

\* a blackout on day 1, after day 0 was resolved and summarized
C1_Witness ==
    /\ error = BlackoutError
    /\ Blackout
    /\ current_day = 1
    /\ ResolvedDays = {0}

\* ------------------------------------------------------------------ C2
\* C2: a turn in which some but not all nations failed does not end main with
\* an error: it is resolved with exactly the actions of the nations that
\* responded, the day advances and a consequence record is stored for it.
C2_PartialFailureTolerated ==
    (TurnOver /\ QueriesDone /\ FailedThisTurn # {} /\ ~Blackout) =>
        /\ outcome # "raised"
        /\ Len(resolve_log) > 0
        /\ resolved_actions = RespondedActions
        /\ current_day = resolve_log[Len(resolve_log)] + 1
        /\ resolve_log[Len(resolve_log)] \in DOMAIN consequence_history

\* what holds of such a turn up to the summarizer: no blackout error, and the
\* resolution got exactly the responders' actions and advanced the day
C2_ResolvedWithRespondersActions ==
    /\ (QueriesDone /\ ~Blackout) => error # BlackoutError
    /\ (error = BlackoutError) => Blackout
    /\ (QueriesDone /\ ~Blackout /\ pc \in {"log", "update_state"}) =>
          queued_actions = RespondedActions
    /\ (QueriesDone /\ ~Blackout /\ (pc = "summarize" \/ TurnOver)) =>
          /\ Len(resolve_log) > 0
          /\ resolved_actions = RespondedActions
          /\ current_day = resolve_log[Len(resolve_log)] + 1

\* ------------------------------------------------------------------ C3
\* C3: per nation and turn, nation.respond is called at most
\* max_model_retries times and never again after it returned; an exception
\* of nation.respond never ends main; a nation is skipped (no response) only
\* after every one of the max_model_retries calls raised.
C3_BoundedRetry ==
    /\ [](\A n \in Nations :
            /\ respond_calls[n] <= max_model_retries
            /\ status[n] = "exhausted" =>
                  (respond_calls[n] = max_model_retries /\ answered[n] = None)
            /\ status[n] = "responded" => answered[n] # None)
    /\ [](pc \in {"query", "after_retry"} => outcome = "running")
    /\ [](pc = "after_retry" =>
            (response = None <=> tries = respond_calls[Roster[nation_index]]))
    /\ [][\A n \in Nations :
            (answered[n] # None \/ status[n] # "pending") =>
                (respond_calls'[n] = respond_calls[n] \/ turns_started' # turns_started)]_vars

\* in one turn A exhausted a budget of two calls and B answered on its second
C3_Witness ==
    /\ max_model_retries = 2
    /\ status["A"] = "exhausted" /\ respond_calls["A"] = 2
    /\ status["B"] = "responded" /\ respond_calls["B"] = 2

\* ------------------------------------------------------------------ C4
\* C4: the only error that leaves main during the turn loop is the blackout
\* error; every other failure in a turn is handled and the turn goes on.
C4_OnlyBlackoutIsFatal == outcome = "raised" => error = BlackoutError

\* ------------------------------------------------------------------ C5
\* C5: the day counter starts at InitialDay, changes only by +1 and only in
\* world.update_state, once per call; a turn starts only while
\* current_day <= max_days, and main ends normally exactly when the counter
\* is first above max_days.
C5_DayCounter ==
    /\ [](turns_started = 0 => current_day = InitialDay)
    /\ [](current_day = InitialDay + Len(resolve_log))
    /\ [][current_day' # current_day =>
            /\ current_day' = current_day + 1
            /\ pc = "update_state"]_vars
    /\ [][Len(resolve_log') # Len(resolve_log) => current_day' = current_day + 1]_vars
    /\ [][turns_started' # turns_started => current_day <= max_days]_vars
    /\ [](outcome = "completed" => current_day = max_days + 1)
    /\ [][(pc = "while" /\ current_day > max_days) => outcome' = "completed"]_vars
    /\ [][(pc = "while" /\ current_day <= max_days) =>
            turns_started' = turns_started + 1]_vars

\* main ended normally after three turns, the counter at max_days + 1
C5_Witness ==
    /\ outcome = "completed"
    /\ max_days = 2
    /\ current_day = 3
    /\ Len(resolve_log) = 3

\* ------------------------------------------------------------------ C6
\* C6: a run that ends normally has simulated exactly max_days turns.
C6_ExactlyMaxDaysTurns ==
    outcome = "completed" =>
        /\ turns_started = max_days
        /\ Len(resolve_log) = max_days

\* ------------------------------------------------------------------ C7
\* C7: the summarizer is called once per resolved day, after update_state
\* advanced the counter, and its result is stored under the day whose
\* actions were just resolved, never under the new current day.
C7_ConsequenceKeying ==
    /\ Len(summarize_log) <= Len(resolve_log)
    /\ Len(resolve_log) <= Len(summarize_log) + 1
    /\ (pc # "summarize" /\ pc # "progress") => Len(summarize_log) = Len(resolve_log)
    /\ \A i \in 1..Len(summarize_log) :
          /\ summarize_log[i].day = resolve_log[i]
          /\ summarize_log[i].at = resolve_log[i] + 1
    /\ pc # "summarize" => DOMAIN consequence_history = ResolvedDays
    /\ pc = "summarize" => DOMAIN consequence_history = ResolvedDays \ {previous_day}
    /\ \A d \in DOMAIN consequence_history : consequence_history[d].consequences_of = d
    /\ current_day \notin DOMAIN consequence_history

\* two turns done: days 0 and 1 summarized once each, the counter at 2
C7_Witness ==
    /\ pc = "while"
    /\ current_day = 2
    /\ Len(summarize_log) = 2
    /\ DOMAIN consequence_history = {0, 1}

\* ------------------------------------------------------------------ C8
\* the last day whose turn ran to the end of the loop body
LastCompletedDay == IF pc = "summarize" THEN previous_day - 1 ELSE current_day - 1

\* C8: the history holds an entry for every day from the initial day to the
\* last completed day, and an entry once written is never removed or changed.
C8_HistoryAppendOnly ==
    /\ [](\A d \in InitialDay..LastCompletedDay : d \in DOMAIN consequence_history)
    /\ [][\A d \in DOMAIN consequence_history :
            /\ d \in DOMAIN consequence_history'
            /\ consequence_history'[d] = consequence_history[d]]_vars

\* the third turn's summary has been stored next to the two earlier ones
C8_Witness ==
    /\ pc = "while"
    /\ current_day = 3
    /\ DOMAIN consequence_history = {0, 1, 2}
    /\ consequence_history[0].state # consequence_history[2].state

\* ------------------------------------------------------------------ C9
\* C9: main ends in one of two ways only: normally, with every configured
\* turn simulated and a consequence record for each, or with the blackout
\* error.
C9_CompletedOrBlackout ==
    outcome # "running" =>
        \/ /\ outcome = "completed"
           /\ turns_started >= max_days
           /\ Len(resolve_log) = turns_started
           /\ DOMAIN consequence_history = ResolvedDays
        \/ /\ outcome = "raised"
           /\ error = BlackoutError

\* main does end: every run reaches a state in which it is no longer running
C9_Terminates == <>(outcome # "running")

\* ------------------------------------------------------------------ C10
\* C10: counting and resolution start only once every nation has responded
\* or exhausted its retries; the summarizer is called only after the
\* resolution of the same day; a nation is queried for a day only when every
\* earlier day is resolved and its summary stored.
C10_PhaseOrder ==
    /\ [](pc \in {"check_blackout", "log", "update_state"} =>
            /\ QueriesDone
            /\ nation_index = NumNations + 1)
    /\ [][(Len(aggressive_action_counts_whole_run') # Len(aggressive_action_counts_whole_run)
           \/ Len(resolve_log') # Len(resolve_log)) => QueriesDone]_vars
    /\ [][Len(resolve_log') # Len(resolve_log) =>
            Len(aggressive_action_counts_whole_run) = Len(resolve_log) + 1]_vars
    /\ [][Len(summarize_log') # Len(summarize_log) =>
            /\ Len(resolve_log) = Len(summarize_log) + 1
            /\ resolve_log[Len(resolve_log)] = previous_day]_vars
    /\ [][respond_calls' # respond_calls =>
            /\ ResolvedDays = InitialDay..(current_day - 1)
            /\ SummarizedDays = ResolvedDays
            /\ DOMAIN consequence_history = ResolvedDays]_vars

\* on day 1, A exhausted its retries and B is being queried
C10_Witness ==
    /\ pc = "query"
    /\ current_day = 1
    /\ status["A"] = "exhausted"
    /\ status["B"] = "pending"
    /\ respond_calls["B"] = 1

\* ------------------------------------------------------------------ C11
\* the actions of the responses of the first k nations of the roster, each
\* response's actions together and in the order the nation gave them
ActionsOfFirst(k) ==
    Concat([i \in 1..k |->
              IF answered[Roster[i]] = None THEN <<>> ELSE answered[Roster[i]].actions])

\* C11: within a turn the nations are queried one at a time in roster order
\* (a call of respond is for the nation at nation_index, every earlier nation
\* is done and no later one has been called), and the queue handed to
\* world.update_state is the concatenation, in roster order, of the action
\* lists of the nations that responded, each list kept together and in order.
C11_DeterministicOrdering ==
    /\ [](pc \in {"query", "after_retry"} =>
            /\ nation_index \in 1..NumNations
            /\ \A i \in 1..NumNations :
                 /\ i < nation_index => status[Roster[i]] # "pending"
                 /\ i > nation_index => /\ status[Roster[i]] = "pending"
                                        /\ respond_calls[Roster[i]] = 0
            /\ queued_actions = ActionsOfFirst(nation_index - 1))
    /\ [][\A i \in 1..NumNations :
            respond_calls'[Roster[i]] > respond_calls[Roster[i]] =>
               /\ i = nation_index
               /\ respond_calls'[Roster[i]] = respond_calls[Roster[i]] + 1]_vars
    /\ [](pc \in {"check_blackout", "log", "update_state"} =>
            queued_actions = ActionsOfFirst(NumNations))
    /\ [][pc = "update_state" => resolved_actions' = ActionsOfFirst(NumNations)]_vars

\* a day resolved with the two actions of A followed by the action of B
C11_Witness ==
    /\ pc = "summarize"
    /\ Len(answered["A"].actions) = 2
    /\ Len(answered["B"].actions) = 1
    /\ resolved_actions = answered["A"].actions \o answered["B"].actions
    /\ resolved_actions[1].name = "attack"
    /\ resolved_actions[2].name = "aid"
    /\ resolved_actions[3].self = "B"

\* ------------------------------------------------------------------ C12
\* the number of actions of a queue whose kind carries a classification
CountTagged(actions, names) ==
    Cardinality({i \in 1..Len(actions) : actions[i].name \in names})

RECURSIVE TotalOfFirst(_, _)
\* the total of the first k per-turn counts
TotalOfFirst(counts, k) ==
    IF k = 0 THEN 0 ELSE TotalOfFirst(counts, k - 1) + counts[k]

\* m is the largest of the per-turn counts
IsLargest(m, counts) ==
    /\ \E i \in 1..Len(counts) : counts[i] = m
    /\ \A i \in 1..Len(counts) : counts[i] <= m

\* the metrics of the turn under way have been written to the day's log
MetricsLogged == "daily/provoking_plus_action_counts" \in DOMAIN log_object

\* C12: once the metrics of a turn are logged, for each classification the
\* per-turn count is the number of the turn's queued actions of that
\* classification, the running sum is the sum of all per-turn counts so far and
\* the running maximum is the largest of them; each turn adds one per-turn
\* count, and the sum and the maximum never decrease from turn to turn.
C12_MetricsAggregation ==
    /\ [](MetricsLogged =>
            LET provoking == aggressive_action_counts_whole_run
                extreme == extreme_action_counts_whole_run
            IN  /\ Len(provoking) = turns_started
                /\ Len(extreme) = turns_started
                /\ log_object["daily/provoking_plus_action_counts"]
                     = CountTagged(queued_actions, PROVOKING_PLUS_ACTIONS)
                /\ log_object["daily/extreme_action_counts"]
                     = CountTagged(queued_actions, EXTREME_ACTIONS)
                /\ provoking[Len(provoking)]
                     = log_object["daily/provoking_plus_action_counts"]
                /\ extreme[Len(extreme)] = log_object["daily/extreme_action_counts"]
                /\ log_object["whole_run/sum_provoking_plus_action_counts"]
                     = TotalOfFirst(provoking, Len(provoking))
                /\ log_object["whole_run/sum_extreme_action_counts"]
                     = TotalOfFirst(extreme, Len(extreme))
                /\ IsLargest(log_object["whole_run/max_provoking_plus_action_counts"],
                             provoking)
                /\ IsLargest(log_object["whole_run/max_extreme_action_counts"], extreme)
                /\ log_object["whole_run/sum_provoking_plus_action_counts"]
                     >= TotalOfFirst(provoking, Len(provoking) - 1)
                /\ \A i \in 1..Len(provoking) :
                     log_object["whole_run/max_provoking_plus_action_counts"]
                        >= provoking[i])
    /\ [][\/ UNCHANGED <<aggressive_action_counts_whole_run,
                         extreme_action_counts_whole_run>>
          \/ /\ pc = "log"
             /\ SubSeq(aggressive_action_counts_whole_run', 1,
                       Len(aggressive_action_counts_whole_run))
                  = aggressive_action_counts_whole_run
             /\ SubSeq(extreme_action_counts_whole_run', 1,
                       Len(extreme_action_counts_whole_run))
                  = extreme_action_counts_whole_run
             /\ Len(aggressive_action_counts_whole_run')
                  = Len(aggressive_action_counts_whole_run) + 1
             /\ MetricsLogged']_vars

\* the second turn's metrics: two provoking actions on the first day, one
\* provoking and extreme action on the second
C12_Witness ==
    /\ pc = "update_state"
    /\ MetricsLogged
    /\ aggressive_action_counts_whole_run = <<2, 1>>
    /\ extreme_action_counts_whole_run = <<0, 1>>
    /\ log_object["whole_run/sum_provoking_plus_action_counts"] = 3
    /\ log_object["whole_run/max_provoking_plus_action_counts"] = 2
    /\ log_object["whole_run/sum_extreme_action_counts"] = 1

\* ------------------------------------------------------------------ C13
\* the action's kind is a row of the action catalog
InCatalog(a) == a.name \in CatalogKinds

\* the queue without the actions of unknown kind
KnownActions(actions) == SelectSeq(actions, InCatalog)

\* the queue of the turn under way holds an action of unknown kind
UnknownQueued == \E i \in 1..Len(queued_actions) : ~InCatalog(queued_actions[i])

\* C13: an action whose kind is not in the action catalog is dropped: the
\* metrics of the turn count only the actions of known kind, the resolution
\* gives the values it gives for the queue without the unknown actions, no
\* error escapes it, and the turn goes on to the summarizer a day later.
C13_UnknownActionSafety ==
    /\ [][pc = "log" =>
            /\ log_object'["daily/provoking_plus_action_counts"]
                 = CountTagged(KnownActions(queued_actions), PROVOKING_PLUS_ACTIONS)
            /\ log_object'["daily/extreme_action_counts"]
                 = CountTagged(KnownActions(queued_actions), EXTREME_ACTIONS)]_vars
    /\ [][pc = "update_state" =>
            /\ dynamic' = Resolve(dynamic, KnownActions(queued_actions),
                                  clamp_dynamic_variables)
            /\ outcome' = "running"
            /\ pc' = "summarize"
            /\ current_day' = current_day + 1]_vars

\* what holds of a queue with an unknown action: it is resolved as the queue
\* without the unknown actions is, no error escapes and the turn proceeds
C13_UnknownActionNotApplied ==
    [][(pc = "update_state" /\ UnknownQueued) =>
          /\ dynamic' = Resolve(dynamic, KnownActions(queued_actions),
                                clamp_dynamic_variables)
          /\ outcome' = "running"
          /\ pc' = "summarize"
          /\ current_day' = current_day + 1]_vars

\* ------------------------------------------------------------------ C14
\* the delta of one action on the value of nation n
DeltaOn(n, a) ==
    IF InCatalog(a)
    THEN (IF a.self = n THEN ActionCatalog[a.name].actor ELSE 0)
         + (IF a.other = n THEN ActionCatalog[a.name].target ELSE 0)
    ELSE 0

RECURSIVE NetDelta(_, _)
\* the sum of the deltas of a queue of actions on the value of nation n
NetDelta(n, actions) ==
    IF actions = <<>> THEN 0 ELSE DeltaOn(n, Head(actions)) + NetDelta(n, Tail(actions))

InRange(v) == PowerMin <= v /\ v <= PowerMax

\* C14: with clamping enabled every nation's value lies in [min, max] after
\* every resolution; with clamping disabled the resolution leaves each value at
\* its sum with the turn's deltas, so a value pushed out of range stays there.
C14_ClampingInvariant ==
    /\ [](clamp_dynamic_variables => \A n \in Nations : InRange(dynamic[n]))
    /\ [][pc = "update_state" =>
            \A n \in Nations :
               LET summed == dynamic[n] + NetDelta(n, queued_actions)
               IN  /\ clamp_dynamic_variables => InRange(dynamic'[n])
                   /\ (clamp_dynamic_variables /\ InRange(summed)) => dynamic'[n] = summed
                   /\ ~clamp_dynamic_variables => dynamic'[n] = summed
                   /\ (~clamp_dynamic_variables /\ ~InRange(summed)) =>
                         ~InRange(dynamic'[n])]_vars

\* the values read by main before the resolution of the turn under way
ValuesBefore == dynamic_vars_whole_run[Len(dynamic_vars_whole_run)].values

\* with clamping enabled, a resolution whose deltas push A below the minimum
\* has left A at the minimum
C14_Witness ==
    /\ pc = "summarize"
    /\ clamp_dynamic_variables
    /\ ValuesBefore["A"] + NetDelta("A", resolved_actions) < PowerMin
    /\ dynamic["A"] = PowerMin

\* ------------------------------------------------------------------ C15
\* the orderings of a queue of actions
Orderings(actions) ==
    LET indices == 1..Len(actions)
    IN  { [i \in indices |-> actions[p[i]]] :
            p \in {q \in [indices -> indices] : \A i, j \in indices : q[i] = q[j] => i = j} }

\* C15: the resolution sums the deltas of the turn and clamps once: the
\* resolved value of each nation is the clamp of its value plus the sum of its
\* deltas, and resolving any ordering of the same actions gives the same state.
C15_AccumulateThenClampOnce ==
    [][pc = "update_state" =>
         /\ \A ordering \in Orderings(queued_actions) :
               Resolve(dynamic, ordering, clamp_dynamic_variables) = dynamic'
         /\ clamp_dynamic_variables =>
               \A n \in Nations :
                  LET summed == dynamic[n] + NetDelta(n, queued_actions)
                  IN  dynamic'[n] = IF summed < PowerMin THEN PowerMin
                                    ELSE IF summed > PowerMax THEN PowerMax
                                    ELSE summed]_vars

\* with clamping enabled, three actions resolved from values near the maximum:
\* B's value would pass the maximum if the aid came before the attack
C15_Witness ==
    /\ pc = "summarize"
    /\ clamp_dynamic_variables
    /\ Len(resolved_actions) = 3
    /\ ValuesBefore["B"] + AidTargetDelta > PowerMax
    /\ \E i \in 1..Len(resolved_actions) :
          resolved_actions[i].name = "aid" /\ resolved_actions[i].other = "B"
    /\ dynamic["B"] = ValuesBefore["B"]

\* ------------------------------------------------------------------ C16
\* C16 as stated: in a turn that is not a blackout, the values of a nation
\* that exhausted its retries are after the resolution what they were before.
C16_SkippedValuesUnchanged ==
    [][pc = "update_state" =>
         \A n \in FailedThisTurn : dynamic'[n] = dynamic[n]]_vars

\* no action of the queue has nation n as its target
Untargeted(n, actions) == \A i \in 1..Len(actions) : actions[i].other # n

\* C16 amended: a nation that exhausted its retries in a turn that is not a
\* blackout got its full retry budget and has no action in the queue; the
\* resolution changes its values only by the deltas of the other nations'
\* actions aimed at it, and leaves them as they were when none is aimed at it;
\* the next turn starts with the nation pending again and no call spent.
C16_SkippedAgentCarriesForward ==
    /\ [](\A n \in FailedThisTurn :
            /\ respond_calls[n] = max_model_retries
            /\ answered[n] = None
            /\ \A i \in 1..Len(queued_actions) : queued_actions[i].self # n)
    /\ [][pc = "update_state" =>
            \A n \in FailedThisTurn :
               LET summed == dynamic[n] + NetDelta(n, queued_actions)
               IN  /\ dynamic'[n] = IF clamp_dynamic_variables /\ summed < PowerMin
                                    THEN PowerMin
                                    ELSE IF clamp_dynamic_variables /\ summed > PowerMax
                                    THEN PowerMax
                                    ELSE summed
                   /\ Untargeted(n, queued_actions) => dynamic'[n] = dynamic[n]]_vars
    /\ [][(pc = "while" /\ pc' \in {"query", "after_retry"}) =>
            /\ tries' = 0
            /\ \A n \in Nations : status'[n] = "pending" /\ respond_calls'[n] = 0]_vars
    /\ [](\A n \in Nations :
            (pc = "query" /\ Roster[nation_index] = n) =>
               /\ status[n] = "pending"
               /\ respond_calls[n] < max_model_retries)

\* a turn with more days to come in which B was skipped and A attacked B:
\* the resolution has taken the attack's target delta from B
C16_Witness ==
    /\ pc = "while"
    /\ current_day <= max_days
    /\ status["A"] = "responded"
    /\ status["B"] = "exhausted"
    /\ resolved_actions = <<Action("A", "B", "attack")>>
    /\ dynamic["B"] = ValuesBefore["B"]
    /\ dynamic_vars_whole_run[Len(dynamic_vars_whole_run) - 1].values["B"]
         = dynamic["B"] - AttackTargetDelta

\* ------------------------------------------------------------------ C17
\* main has raised the error of the blackout check
BlackoutRaised == outcome = "raised" /\ Blackout /\ error.type = "RuntimeError"

\* C17: the error raised on a blackout carries both the day of the blackout
\* and the configured retry budget.
C17_BlackoutErrorAttribution ==
    BlackoutRaised =>
        /\ "max_model_retries" \in DOMAIN error.values
        /\ error.values["max_model_retries"] = max_model_retries
        /\ "current_day" \in DOMAIN error.values
        /\ error.values["current_day"] = current_day

\* what holds of the error: its only formatted value is the retry budget
C17_BlackoutErrorNamesRetryBudget ==
    BlackoutRaised =>
        /\ DOMAIN error.values = {"max_model_retries"}
        /\ error.values["max_model_retries"] = max_model_retries

\* ------------------------------------------------------------------ C18
\* C18: the resolution leaves the nation states it was given as they were:
\* what main reads from the nations it gave to World is after
\* world.update_state what it was before.
C18_ResolutionKeepsItsInput ==
    [][pc = "update_state" =>
         \A n \in Nations : GetDynamic(n)' = GetDynamic(n)]_vars

\* what holds instead: the row main reads from its nations after
\* world.update_state holds the resolved values of the new day, and the values
\* from before the resolution are left only in the row logged a turn earlier
C18_PostUpdateRowsRead ==
    [][pc = "summarize" /\ pc' = "while" =>
         /\ dynamic_vars_whole_run'[Len(dynamic_vars_whole_run')]
              = DynamicVarsRow(current_day,
                               Resolve(ValuesBefore, resolved_actions,
                                       clamp_dynamic_variables))
         /\ SubSeq(dynamic_vars_whole_run', 1, Len(dynamic_vars_whole_run))
              = dynamic_vars_whole_run]_vars

\* ------------------------------------------------------------------ C19
\* the first turn is over, and in it A attacked B and B gave no action
FirstTurnAttackOnB ==
    /\ pc = "while" /\ outcome = "running"
    /\ turns_started = 1
    /\ resolved_actions = <<Action("A", "B", "attack")>>
    /\ status["B"] = "exhausted" \/ answered["B"].actions = <<>>

\* C19: with A and B at power 50, an attack of -5 on the actor and -10 on the
\* target and bounds [0, 100], a first turn in which A attacks B and B gives no
\* action ends with A at 45, B at 40, a provoking count of 1, the day at 1 and
\* a consequence record for day 0.
C19_ExampleScenario ==
    FirstTurnAttackOnB =>
        /\ dynamic = [n \in Nations |-> IF n = "A" THEN 45 ELSE 40]
        /\ aggressive_action_counts_whole_run = <<1>>
        /\ log_object["daily/provoking_plus_action_counts"] = 1
        /\ current_day = 1
        /\ InitialDay \in DOMAIN consequence_history
        /\ consequence_history[InitialDay].state = dynamic

\* the scenario with B failing every attempt of the first turn
C19_Witness ==
    /\ FirstTurnAttackOnB
    /\ status["B"] = "exhausted"
    /\ respond_calls["B"] = max_model_retries
    /\ max_model_retries > 0
    /\ dynamic["A"] = 45 /\ dynamic["B"] = 40

ResponsesLogged == "daily/model_responses_text" \in DOMAIN log_object

\* the rows of the day's tables
LoggedRows(table) == {log_object[table][i] : i \in 1..Len(log_object[table])}

\* C22: every row of the day's response text table and response cost table
\* is labelled with the nation that gave the row's response, also when an
\* earlier nation of the roster was skipped.
C22_ResponseAttribution ==
    ResponsesLogged =>
        /\ Len(log_object["daily/model_responses_text"]) = Len(model_responses)
        /\ Len(log_object["daily/model_responses_costs"]) = Len(model_responses)
        /\ \A row \in LoggedRows("daily/model_responses_text") :
              row.nation_name = row.response.by
        /\ \A row \in LoggedRows("daily/model_responses_costs") :
              row.nation_name = row.response.by

\* what holds of the tables: there is one row for each response of the day, in
\* the order the responses came, and row i is labelled with the i-th nation
\* of the roster; the label is right when no nation before the responder was
\* skipped
C22_RowsLabelledByPosition ==
    ResponsesLogged =>
        \A table \in {"daily/model_responses_text", "daily/model_responses_costs"} :
           /\ Len(log_object[table]) = Len(model_responses)
           /\ \A i \in 1..Len(log_object[table]) :
                 /\ log_object[table][i].response = model_responses[i]
                 /\ log_object[table][i].nation_name = Roster[i]
                 /\ (\A j \in 1..IndexOf(model_responses[i].by) :
                        status[Roster[j]] = "responded")
                       => log_object[table][i].nation_name = NationOfResponse(i)

\* ------------------------------------------------------------------ C23
\* no nation was queried, nothing was resolved or summarized, and main has
\* not ended otherwise than with the blackout error of the first turn
AbortsInFirstBlackout ==
    /\ \A n \in Nations : respond_calls[n] = 0 /\ answered[n] = None
    /\ resolve_log = <<>>
    /\ summarize_log = <<>>
    /\ consequence_history = <<>>
    /\ outcome # "completed"
    /\ outcome = "raised" =>
          /\ error = BlackoutError
          /\ Blackout
          /\ turns_started = 1
          /\ current_day = InitialDay

\* C23: with a retry budget of 0 no nation is ever queried, every nation
\* counts as failed, and main ends with the blackout error in the first turn
\* with nothing resolved or summarized.
C23_ZeroRetryBudget ==
    max_model_retries = 0 => AbortsInFirstBlackout

\* what holds: the same for the runs that have at least one day after day 0
C23_ZeroRetryBudgetWithDays ==
    (max_model_retries = 0 /\ max_days > 0) => AbortsInFirstBlackout

\* ------------------------------------------------------------------ C24
\* what a run keeps from turn to turn: the world and the whole-run logs
kept_vars == <<world_vars, table_vars, aggressive_action_counts_whole_run,
               extreme_action_counts_whole_run, dynamic_vars_whole_run>>

\* every row of a whole-run table is of a day before the current one
RowsBeforeToday(rows) == \A i \in 1..Len(rows) : rows[i].day < current_day

\* C24: the turn of a blackout gets no further than the blackout test with
\* nothing queued; no step of a turn up to and including that test changes the
\* whole-run action and response logs, the count lists, the consequence
\* history, the day or a nation's values, so when the blackout error is raised
\* all of them are as the previous turn left them.
C24_AbortedTurnLeavesNoTrace ==
    /\ [](Blackout =>
            /\ pc = "check_blackout"
            /\ queued_actions = <<>>
            /\ model_responses = <<>>)
    /\ [][(pc \in {"while", "query", "after_retry", "check_blackout"}) =>
            UNCHANGED kept_vars]_vars
    /\ [](BlackoutRaised =>
            /\ current_day = InitialDay + turns_started - 1
            /\ Len(aggressive_action_counts_whole_run) = turns_started - 1
            /\ Len(extreme_action_counts_whole_run) = turns_started - 1
            /\ DOMAIN consequence_history = InitialDay..(current_day - 1)
            /\ RowsBeforeToday(actions_whole_run)
            /\ RowsBeforeToday(model_response_text_whole_run)
            /\ RowsBeforeToday(model_response_costs_whole_run)
            /\ dynamic = ValuesBefore
            /\ current_day = InitialDay
                 \/ ValuesBefore = consequence_history[current_day - 1].state)

\* a blackout on day 1 after a day 0 in which both nations attacked
C24_Witness ==
    /\ BlackoutRaised
    /\ current_day = 1
    /\ aggressive_action_counts_whole_run = <<2>>
    /\ Len(actions_whole_run) = 2
    /\ Len(model_response_text_whole_run) = 2
    /\ dynamic = consequence_history[0].state

\* the letters of a name in upper case
UpperCaseLetters == {"F", "R", "E", "N"}
IsUpperCase(name) == \A i \in 1..Len(name) : name[i] \in UpperCaseLetters

\* respond has returned a response, or an exception has left it
Returned == agent_pc = "returned"
RaisedOut == agent_pc = "raised"

\* C25: LLMAgent.respond, for any backend completion, either returns a
\* response in which every order is a string and every message is a non-empty
\* string keyed by an upper-case recipient (with no message at all when the
\* game is no-press), or raises AgentCompletionError: whatever exception the
\* backend call or the parsing raised, AgentCompletionError is the one that
\* leaves respond.
C25_RespondOutcome ==
    /\ (agent_response # None) = Returned
    /\ Returned =>
          /\ \A i \in 1..Len(Iterate(agent_response.orders)) :
                IsStr(Iterate(agent_response.orders)[i])
          /\ \A recipient \in DOMAIN agent_response.messages :
                /\ IsUpperCase(recipient)
                /\ agent_response.messages[recipient] # <<>>
          /\ no_press => DOMAIN agent_response.messages = {}
    /\ RaisedOut => exc.type = "AgentCompletionError"
    /\ (exc.type # "none") => agent_pc \in {"except", "raised"}

\* a response is returned whose one message was given to "fr", in a
\* completion with text around its object
C25_Witness ==
    /\ Returned
    /\ DOMAIN agent_response.messages = {<<"F", "R">>}
    /\ Len(backend_outcome.completion) > 3
    /\ agent_response.orders = JList(<<JStr(<<"F">>)>>)

====
